---------------------------- MODULE Spec2Model ----------------------------
(***************************************************************************)
(* Spark executor-loss diagnosis (GC vs OOM): the log fixtures, the log    *)
(* access tools, the GC / OOM indicator extractors and the failure         *)
(* classifier of src/spark_gc_oom_demo.py and                              *)
(* src/spark_deep_agent_example.py.                                        *)
(*                                                                         *)
(* Log texts are TLA+ strings; the Python str methods the tools use        *)
(* ("in", count, lower, split, strip, int) are operators over strings that *)
(* compute what the methods compute, on ASCII text.  Durations are Python   *)
(* ints; the float quotient sum/len is kept exact as a fraction, which is  *)
(* what the float holds for the magnitudes of the inputs used here.        *)
(***************************************************************************)
EXTENDS Integers, Sequences, FiniteSets, TLC

VARIABLES
    LOGS,          \* the module-level corpus of spark_gc_oom_demo.py
    driver_log,    \* the driver log text in hand
    executor_log,  \* the executor log text in hand
    pc,            \* "idle" before the call of a run, "done" after it
    call,          \* the call made: [fn, ...arguments...]
    result,        \* the value the call returned
    pending,       \* session: the call each caller has in flight, or NoCall
    history        \* session: the calls that returned, in order of return

vars == <<LOGS, driver_log, executor_log, pc, call, result, pending, history>>

(***************************************************************************)
(* Python str primitives                                                   *)
(***************************************************************************)

\* s[i:] (1-based)
From(s, i) == SubSeq(s, i, Len(s))

\* "m in s"
Contains(s, m) == \E i \in 1..(Len(s) - Len(m) + 1) : SubSeq(s, i, i + Len(m) - 1) = m

\* every position (1-based) where m occurs in s
Hits(s, m) == {i \in 1..(Len(s) - Len(m) + 1) : SubSeq(s, i, i + Len(m) - 1) = m}

\* the occurrences a left-to-right scan finds from position i on: the leftmost
\* one, then the leftmost one after its end, and so on (they do not overlap)
RECURSIVE Scan(_, _, _)
Scan(hits, len, i) ==
    LET ahead == {h \in hits : h >= i}
    IN  IF ahead = {} THEN <<>>
        ELSE LET h == CHOOSE h \in ahead : \A k \in ahead : h <= k
             IN  <<h>> \o Scan(hits, len, h + len)

\* s.count(m): the non-overlapping occurrences, scanning from the left
Count(s, m) == Len(Scan(Hits(s, m), Len(m), 1))

\* the pieces of s before, between and after the occurrences at the positions at
RECURSIVE Pieces(_, _, _, _)
Pieces(s, at, len, i) ==
    IF at = <<>> THEN <<From(s, i)>>
    ELSE <<SubSeq(s, i, Head(at) - 1)>> \o Pieces(s, Tail(at), len, Head(at) + len)

\* s.split(sep): always at least one piece
Split(s, sep) == Pieces(s, Scan(Hits(s, sep), Len(sep), 1), Len(sep), 1)

UPPER == "ABCDEFGHIJKLMNOPQRSTUVWXYZ"
LOWER == "abcdefghijklmnopqrstuvwxyz"

\* the lower-case letter of each upper-case letter
LOWER_OF ==
    [c \in {SubSeq(UPPER, k, k) : k \in 1..Len(UPPER)} |->
        LET k == CHOOSE k \in 1..Len(UPPER) : SubSeq(UPPER, k, k) = c
        IN  SubSeq(LOWER, k, k)]

LowerChar(c) == IF c \in DOMAIN LOWER_OF THEN LOWER_OF[c] ELSE c

\* s.lower(), character by character (the halves keep the recursion shallow)
RECURSIVE Lower(_)
Lower(s) ==
    IF Len(s) <= 1 THEN LowerChar(s)
    ELSE Lower(SubSeq(s, 1, Len(s) \div 2)) \o Lower(From(s, Len(s) \div 2 + 1))

\* the ASCII characters str.strip() and int() take for whitespace: space, \t,
\* \n, \r, \f, the vertical tab (0x0b) and the separators 0x1c to 0x1f, the
\* last five written as the characters themselves
WHITESPACE == {" ", "\t", "\n", "\r", "\f", "", "", "", "", ""}

\* the characters at the left end of s that are in ws, removed
RECURSIVE LStripOf(_, _)
LStripOf(s, ws) ==
    IF s # "" /\ SubSeq(s, 1, 1) \in ws THEN LStripOf(From(s, 2), ws) ELSE s

RECURSIVE RStripOf(_, _)
RStripOf(s, ws) ==
    IF s # "" /\ SubSeq(s, Len(s), Len(s)) \in ws
    THEN RStripOf(SubSeq(s, 1, Len(s) - 1), ws) ELSE s

LStrip(s) == LStripOf(s, WHITESPACE)

RStrip(s) == RStripOf(s, WHITESPACE)

\* s.strip()
Strip(s) == RStrip(LStrip(s))

\* the whitespace int() skips around the literal of an ASCII str: the six
\* characters of C's isspace, without the separators 0x1c to 0x1f
INT_WHITESPACE == {" ", "\t", "\n", "\r", "\f", ""}

DIGITS == "0123456789"

IsDigit(c) == \E k \in 1..Len(DIGITS) : SubSeq(DIGITS, k, k) = c

DigitValue(c) == (CHOOSE k \in 1..Len(DIGITS) : SubSeq(DIGITS, k, k) = c) - 1

\* the digits of an int literal: digits, single underscores only between digits
RECURSIVE DigitsOk(_, _)
DigitsOk(s, afterDigit) ==
    IF s = "" THEN afterDigit
    ELSE LET c == SubSeq(s, 1, 1)
         IN  IF IsDigit(c) THEN DigitsOk(From(s, 2), TRUE)
             ELSE IF c = "_" THEN afterDigit /\ Len(s) > 1 /\ IsDigit(SubSeq(s, 2, 2))
                                  /\ DigitsOk(From(s, 2), FALSE)
             ELSE FALSE

RECURSIVE DigitsValue(_, _)
DigitsValue(s, acc) ==
    IF s = "" THEN acc
    ELSE LET c == SubSeq(s, 1, 1)
         IN  IF c = "_" THEN DigitsValue(From(s, 2), acc)
             ELSE DigitsValue(From(s, 2), 10 * acc + DigitValue(c))

\* int(s): [ok |-> FALSE] stands for the ValueError
ParseInt(s) ==
    LET t == RStripOf(LStripOf(s, INT_WHITESPACE), INT_WHITESPACE)
        signed == t # "" /\ SubSeq(t, 1, 1) \in {"+", "-"}
        body == IF signed THEN From(t, 2) ELSE t
    IN  IF DigitsOk(body, FALSE)
        THEN [ok |-> TRUE,
              val |-> IF signed /\ SubSeq(t, 1, 1) = "-"
                      THEN 0 - DigitsValue(body, 0) ELSE DigitsValue(body, 0)]
        ELSE [ok |-> FALSE, val |-> 0]

(***************************************************************************)
(* Log fixtures                                                            *)
(***************************************************************************)

\* LOGS["oom_driver"], spark_gc_oom_demo.py:26-29
LOG_oom_driver ==
    "\n"
    \o "2025-10-01 10:24:45 WARN TaskSetManager: Lost task 0.0 in stage 3.0 (TID 150, executor 1): ExecutorLostFailure\n"
    \o "2025-10-01 10:24:45 ERROR TaskSchedulerImpl: Lost executor 1: Container killed by YARN for exceeding memory limits\n"

\* LOGS["oom_executor"], spark_gc_oom_demo.py:30-36
LOG_oom_executor ==
    "\n"
    \o "2025-10-01 10:24:20 INFO MemoryStore: Block rdd_45_1 stored as bytes in memory (estimated size 1024.0 MB, free 0.0 B)\n"
    \o "2025-10-01 10:24:30 ERROR Executor: Exception in task 0.0 in stage 3.0 (TID 150)\n"
    \o "java.lang.OutOfMemoryError: Java heap space\n"
    \o "\tat java.util.Arrays.copyOf(Arrays.java:3332)\n"
    \o "2025-10-01 10:24:45 FATAL Container: Container killed by YARN. Current usage: 4.2 GB of 4 GB physical memory used\n"

\* LOGS["gc_driver"], spark_gc_oom_demo.py:37-41
LOG_gc_driver ==
    "\n"
    \o "2025-10-01 11:16:00 WARN TaskSetManager: Lost task 0.0 in stage 5.0 (TID 200, executor 2): ExecutorLostFailure\n"
    \o "2025-10-01 11:16:00 ERROR TaskSchedulerImpl: Lost executor 2: Remote RPC client disassociated. Likely due to heartbeat timeout.\n"
    \o "2025-10-01 11:16:01 WARN HeartbeatReceiver: Removing executor 2 with no recent heartbeats: 150000 ms exceeds timeout 120000 ms\n"

\* LOGS["gc_executor"], spark_gc_oom_demo.py:42-49
LOG_gc_executor ==
    "\n"
    \o "2025-10-01 11:15:40 WARN Executor: GC time exceeded 10% threshold (12% of total time)\n"
    \o "2025-10-01 11:15:45 WARN Executor: Full GC event took 45000 ms\n"
    \o "2025-10-01 11:15:50 WARN Executor: Full GC event took 52000 ms\n"
    \o "2025-10-01 11:15:55 WARN Executor: Full GC event took 48000 ms\n"
    \o "2025-10-01 11:15:58 INFO Executor: Total GC time in last interval: 145000 ms (58% of interval)\n"
    \o "2025-10-01 11:16:00 ERROR CoarseGrainedExecutorBackend: Cannot send heartbeat to driver, executor appears to be stuck in GC\n"

\* LOGS["mixed_executor"], spark_gc_oom_demo.py:50-58
LOG_mixed_executor ==
    "\n"
    \o "2025-10-01 12:00:10 WARN Executor: GC time exceeded 10% threshold (15% of total time)\n"
    \o "2025-10-01 12:00:15 WARN Executor: Full GC event took 35000 ms\n"
    \o "2025-10-01 12:00:25 WARN Executor: Full GC event took 42000 ms\n"
    \o "2025-10-01 12:00:30 ERROR Executor: Exception in task 0.0 in stage 7.0 (TID 300)\n"
    \o "java.lang.OutOfMemoryError: GC overhead limit exceeded\n"
    \o "\tat org.apache.spark.memory.MemoryManager.acquireExecutionMemory\n"
    \o "2025-10-01 12:00:35 FATAL Container: Process killed by YARN for exceeding memory limits\n"

\* spark_deep_agent_example.py:33-40
DRIVER_LOG_OOM ==
    "\n"
    \o "2025-10-01 10:23:45 INFO TaskSetManager: Starting task 0.0 in stage 3.0 (TID 150, executor 1, partition 0, PROCESS_LOCAL)\n"
    \o "2025-10-01 10:24:12 INFO TaskSetManager: Starting task 1.0 in stage 3.0 (TID 151, executor 1, partition 1, PROCESS_LOCAL)\n"
    \o "2025-10-01 10:24:45 WARN TaskSetManager: Lost task 0.0 in stage 3.0 (TID 150, executor 1): ExecutorLostFailure (executor 1 exited caused by one of the running tasks) Reason: Container killed by YARN for exceeding memory limits\n"
    \o "2025-10-01 10:24:45 ERROR TaskSchedulerImpl: Lost executor 1 on worker-node-3: Container killed by YARN for exceeding memory limits\n"
    \o "2025-10-01 10:24:46 WARN TaskSetManager: Lost task 1.0 in stage 3.0 (TID 151, executor 1): ExecutorLostFailure (executor 1 exited caused by one of the running tasks)\n"
    \o "2025-10-01 10:24:47 INFO DAGScheduler: Executor lost: 1 (epoch 5)\n"

\* spark_deep_agent_example.py:42-53
EXECUTOR_1_LOG_OOM ==
    "\n"
    \o "2025-10-01 10:23:45 INFO Executor: Running task 0.0 in stage 3.0 (TID 150)\n"
    \o "2025-10-01 10:24:00 INFO MemoryStore: Block rdd_45_0 stored as bytes in memory (estimated size 512.0 MB, free 256.0 MB)\n"
    \o "2025-10-01 10:24:15 WARN MemoryStore: Not enough space to cache rdd_45_1 in memory! (computed 1024.0 MB so far)\n"
    \o "2025-10-01 10:24:20 INFO MemoryStore: Block rdd_45_1 stored as bytes in memory (estimated size 1024.0 MB, free 0.0 B)\n"
    \o "2025-10-01 10:24:30 ERROR Executor: Exception in task 0.0 in stage 3.0 (TID 150)\n"
    \o "java.lang.OutOfMemoryError: Java heap space\n"
    \o "\tat java.util.Arrays.copyOf(Arrays.java:3332)\n"
    \o "\tat java.io.ByteArrayOutputStream.grow(ByteArrayOutputStream.java:118)\n"
    \o "\tat org.apache.spark.util.ByteBufferOutputStream.write(ByteBufferOutputStream.scala:41)\n"
    \o "2025-10-01 10:24:45 FATAL Container: Process killed by YARN: Container [pid=12345] is running beyond physical memory limits. Current usage: 4.2 GB of 4 GB physical memory used; killing container.\n"

\* spark_deep_agent_example.py:55-62
DRIVER_LOG_GC ==
    "\n"
    \o "2025-10-01 11:15:30 INFO TaskSetManager: Starting task 0.0 in stage 5.0 (TID 200, executor 2, partition 0, PROCESS_LOCAL)\n"
    \o "2025-10-01 11:15:35 INFO TaskSetManager: Starting task 1.0 in stage 5.0 (TID 201, executor 2, partition 1, PROCESS_LOCAL)\n"
    \o "2025-10-01 11:16:00 WARN TaskSetManager: Lost task 0.0 in stage 5.0 (TID 200, executor 2): ExecutorLostFailure (executor 2 exited unrelated to the running tasks)\n"
    \o "2025-10-01 11:16:00 ERROR TaskSchedulerImpl: Lost executor 2 on worker-node-5: Remote RPC client disassociated. Likely due to heartbeat timeout.\n"
    \o "2025-10-01 11:16:01 INFO DAGScheduler: Executor lost: 2 (epoch 8)\n"
    \o "2025-10-01 11:16:01 WARN HeartbeatReceiver: Removing executor 2 with no recent heartbeats: 150000 ms exceeds timeout 120000 ms\n"

\* spark_deep_agent_example.py:64-74
EXECUTOR_2_LOG_GC ==
    "\n"
    \o "2025-10-01 11:15:30 INFO Executor: Running task 0.0 in stage 5.0 (TID 200)\n"
    \o "2025-10-01 11:15:32 INFO MemoryStore: Block rdd_67_0 stored as bytes in memory (estimated size 800.0 MB, free 1.2 GB)\n"
    \o "2025-10-01 11:15:40 WARN Executor: GC time exceeded 10% threshold (12% of total time)\n"
    \o "2025-10-01 11:15:45 WARN Executor: Full GC event took 45000 ms\n"
    \o "2025-10-01 11:15:50 WARN Executor: Full GC event took 52000 ms\n"
    \o "2025-10-01 11:15:55 WARN Executor: Full GC event took 48000 ms\n"
    \o "2025-10-01 11:15:58 INFO Executor: Total GC time in last interval: 145000 ms (58% of interval)\n"
    \o "2025-10-01 11:16:00 ERROR CoarseGrainedExecutorBackend: Cannot send heartbeat to driver, executor appears to be stuck in GC\n"
    \o "2025-10-01 11:16:00 WARN CoarseGrainedExecutorBackend: Executor heartbeat timed out after 150000 ms\n"

\* spark_deep_agent_example.py:76-87
EXECUTOR_3_LOG_MIXED ==
    "\n"
    \o "2025-10-01 12:00:00 INFO Executor: Running task 0.0 in stage 7.0 (TID 300)\n"
    \o "2025-10-01 12:00:05 INFO MemoryStore: Block rdd_89_0 stored as bytes in memory (estimated size 1.5 GB, free 500.0 MB)\n"
    \o "2025-10-01 12:00:10 WARN Executor: GC time exceeded 10% threshold (15% of total time)\n"
    \o "2025-10-01 12:00:15 WARN Executor: Full GC event took 35000 ms\n"
    \o "2025-10-01 12:00:20 WARN MemoryStore: Not enough space to cache rdd_89_1 in memory!\n"
    \o "2025-10-01 12:00:25 WARN Executor: Full GC event took 42000 ms\n"
    \o "2025-10-01 12:00:30 ERROR Executor: Exception in task 0.0 in stage 7.0 (TID 300)\n"
    \o "java.lang.OutOfMemoryError: GC overhead limit exceeded\n"
    \o "\tat org.apache.spark.memory.MemoryManager.acquireExecutionMemory\n"
    \o "2025-10-01 12:00:35 FATAL Container: Process killed by YARN for exceeding memory limits\n"


\* LOGS, spark_gc_oom_demo.py:25-59
LOG_DATA ==
    [k \in {"oom_driver", "oom_executor", "gc_driver", "gc_executor", "mixed_executor"} |->
        CASE k = "oom_driver" -> LOG_oom_driver
          [] k = "oom_executor" -> LOG_oom_executor
          [] k = "gc_driver" -> LOG_gc_driver
          [] k = "gc_executor" -> LOG_gc_executor
          [] k = "mixed_executor" -> LOG_mixed_executor]

(***************************************************************************)
(* Log access tools                                                        *)
(***************************************************************************)

\* LOGS.get(log_type, f"Error: Unknown log type '{log_type}'")
get_log(logs, log_type) ==
    IF log_type \in DOMAIN logs THEN logs[log_type]
    ELSE "Error: Unknown log type '" \o log_type \o "'"

\* as corpus_after_get_log, but with LOGS.pop(log_type, default) for LOGS.get
corpus_after_pop(logs, log_type) == [k \in DOMAIN logs \ {log_type} |-> logs[k]]

\* the corpus after get_log: dict.get reads LOGS and stores nothing
corpus_after_get_log(logs, log_type) == logs

get_driver_log(scenario) ==
    IF scenario = "gc" THEN DRIVER_LOG_GC ELSE DRIVER_LOG_OOM

get_executor_log(executor_id, scenario) ==
    IF scenario = "gc" /\ executor_id = 2 THEN EXECUTOR_2_LOG_GC
    ELSE IF scenario = "mixed" /\ executor_id = 3 THEN EXECUTOR_3_LOG_MIXED
    ELSE IF executor_id = 1 THEN EXECUTOR_1_LOG_OOM
    ELSE "Error: No log data for executor " \o ToString(executor_id)
         \o " in scenario " \o scenario

(***************************************************************************)
(* Arithmetic of the duration statistics                                   *)
(***************************************************************************)

RECURSIVE Sum(_)
Sum(seq) == IF seq = <<>> THEN 0 ELSE Head(seq) + Sum(Tail(seq))

\* as Max, but the first entry is taken for the largest
Max_first(seq) == seq[1]

\* max(seq), seq non-empty
Max(seq) ==
    CHOOSE x \in {seq[i] : i \in 1..Len(seq)} : \A i \in 1..Len(seq) : x >= seq[i]

\* as Mean, but with the floor division sum(seq) // len(seq)
Mean_floor(seq) == [num |-> Sum(seq) \div Len(seq), den |-> 1]

\* sum(seq) / len(seq): the quotient kept exact, as numerator and denominator
Mean(seq) == [num |-> Sum(seq), den |-> Len(seq)]

\* the int 0 that stands for "no durations"
ZeroAvg == [num |-> 0, den |-> 1]

\* round(num/den) to the nearest integer, ties to the even one (den > 0)
RoundHalfEven(num, den) ==
    LET q == num \div den
        r == num % den
    IN  IF 2 * r < den THEN q
        ELSE IF 2 * r > den THEN q + 1
        ELSE IF q % 2 = 0 THEN q ELSE q + 1

\* f"{avg:.0f}" of the float num/den: a negative value that rounds to zero prints "-0"
Format0f(avg) ==
    LET n == RoundHalfEven(avg.num, avg.den)
    IN  IF n = 0 /\ avg.num < 0 THEN "-0" ELSE ToString(n)

(***************************************************************************)
(* GC duration extraction, the same loop in both files                     *)
(***************************************************************************)

\* int(line.split("took")[1].split("ms")[0].strip())
ParseDuration(line) ==
    ParseInt(Strip(Split(Split(line, "took")[2], "ms")[1]))

RECURSIVE TimesOfLines(_)
TimesOfLines(lines) ==
    IF lines = <<>> THEN <<>>
    ELSE LET line == Head(lines)
             rest == TimesOfLines(Tail(lines))
             time_ms == ParseDuration(line)
         IN  IF Contains(line, "Full GC event took") /\ time_ms.ok
             THEN <<time_ms.val>> \o rest
             ELSE rest

gc_times(log_content) == TimesOfLines(Split(log_content, "\n"))

(***************************************************************************)
(* Indicator extractors, spark_deep_agent_example.py                       *)
(***************************************************************************)

\* as search_gc_indicators, but full_gc_events counts the lines that hold a
\* "Full GC event" instead of the occurrences in the whole text
search_gc_indicators_per_line(log_content) ==
    LET times == gc_times(log_content)
        lowered == Lower(log_content)
    IN  [full_gc_events |->
             Len(SelectSeq(Split(log_content, "\n"), LAMBDA l : Contains(l, "Full GC event"))),
         gc_warnings |-> Count(log_content, "GC time exceeded"),
         heartbeat_timeout |-> Contains(lowered, "heartbeat") /\ Contains(lowered, "timeout"),
         gc_overhead |-> Contains(log_content, "GC overhead limit exceeded"),
         stuck_in_gc |-> Contains(log_content, "stuck in GC"),
         gc_event_times_ms |-> times,
         max_gc_time_ms |-> IF times # <<>> THEN Max(times) ELSE 0,
         avg_gc_time_ms |-> IF times # <<>> THEN Mean(times) ELSE ZeroAvg]

search_gc_indicators(log_content) ==
    LET times == gc_times(log_content)
        lowered == Lower(log_content)
    IN  [full_gc_events |-> Count(log_content, "Full GC event"),
         gc_warnings |-> Count(log_content, "GC time exceeded"),
         heartbeat_timeout |-> Contains(lowered, "heartbeat") /\ Contains(lowered, "timeout"),
         gc_overhead |-> Contains(log_content, "GC overhead limit exceeded"),
         stuck_in_gc |-> Contains(log_content, "stuck in GC"),
         gc_event_times_ms |-> times,
         max_gc_time_ms |-> IF times # <<>> THEN Max(times) ELSE 0,
         avg_gc_time_ms |-> IF times # <<>> THEN Mean(times) ELSE ZeroAvg]

\* as UsageLines, but the line kept is the last one holding the marker
UsageLines_last(log_content) ==
    LET lines == SelectSeq(Split(log_content, "\n"), LAMBDA l : Contains(l, "Current usage:"))
    IN  IF lines = <<>> THEN <<>> ELSE <<lines[Len(lines)]>>

\* [l for l in log_content.split('\n') if "Current usage:" in l]
UsageLines(log_content) ==
    SelectSeq(Split(log_content, "\n"), LAMBDA l : Contains(l, "Current usage:"))

search_oom_indicators(log_content) ==
    LET indicators ==
            [java_heap_space_oom |-> Contains(log_content, "OutOfMemoryError: Java heap space"),
             container_killed |-> Contains(log_content, "Container killed")
                                  \/ Contains(log_content, "killed by YARN"),
             memory_exceeded |-> Contains(log_content, "exceeding memory limits"),
             not_enough_space |-> Count(log_content, "Not enough space"),
             free_memory_zero |-> Contains(log_content, "free 0.0 B")
                                  \/ Contains(log_content, "free 0 B")]
    IN  IF Contains(log_content, "Current usage:") /\ UsageLines(log_content) # <<>>
        THEN [memory_usage_info |-> Strip(UsageLines(log_content)[1])] @@ indicators
        ELSE indicators

(***************************************************************************)
(* Failure classifier, spark_gc_oom_demo.py                                *)
(***************************************************************************)

\* the item when the test holds, nothing otherwise: "if test: list.append(item)"
When(test, item) == IF test THEN <<item>> ELSE <<>>

\* as oom_indicators, but "killed by YARN" counts as a container kill as well
oom_indicators_yarn(driver, executor) ==
    When(Contains(executor, "OutOfMemoryError: Java heap space"), "Java heap space OOM")
    \o When(Contains(driver, "Container killed") \/ Contains(executor, "Container killed")
            \/ Contains(executor, "killed by YARN"),
            "Container killed by YARN")
    \o When(Contains(executor, "free 0.0 B") \/ Contains(executor, "free 0 B"),
            "Memory exhausted (0 free)")
    \o When(Contains(driver, "exceeding memory limits")
            \/ Contains(executor, "exceeding memory limits"),
            "Physical memory limit exceeded")

oom_indicators(driver, executor) ==
    When(Contains(executor, "OutOfMemoryError: Java heap space"), "Java heap space OOM")
    \o When(Contains(driver, "Container killed") \/ Contains(executor, "Container killed"),
            "Container killed by YARN")
    \o When(Contains(executor, "free 0.0 B") \/ Contains(executor, "free 0 B"),
            "Memory exhausted (0 free)")
    \o When(Contains(driver, "exceeding memory limits")
            \/ Contains(executor, "exceeding memory limits"),
            "Physical memory limit exceeded")

\* f"Max GC pause: {max_gc}ms, Avg: {avg_gc:.0f}ms"
StatsPhrase(times) ==
    "Max GC pause: " \o ToString(Max(times)) \o "ms, Avg: " \o Format0f(Mean(times)) \o "ms"

\* as full_gc_indicators, but the statistics are appended before the count
full_gc_indicators_stats_first(executor) ==
    IF Contains(executor, "Full GC event took")
    THEN LET times == gc_times(executor)
         IN  (IF times # <<>> THEN <<StatsPhrase(times)>> ELSE <<>>)
             \o <<ToString(Count(executor, "Full GC event")) \o " Full GC events detected">>
    ELSE <<>>

\* the block under 'if "Full GC event took" in executor_log'
full_gc_indicators(executor) ==
    IF Contains(executor, "Full GC event took")
    THEN LET times == gc_times(executor)
         IN  <<ToString(Count(executor, "Full GC event")) \o " Full GC events detected">>
             \o (IF times # <<>> THEN <<StatsPhrase(times)>> ELSE <<>>)
    ELSE <<>>

\* as gc_indicators, but the heartbeat test forgets driver_log.lower()
gc_indicators_case_sensitive(driver, executor) ==
    full_gc_indicators(executor)
    \o When(Contains(driver, "heartbeat timeout"), "Heartbeat timeout (classic GC symptom)")
    \o When(Contains(executor, "stuck in GC"), "Executor stuck in GC")
    \o When(Contains(executor, "GC time exceeded"), "GC time threshold exceeded")

gc_indicators(driver, executor) ==
    full_gc_indicators(executor)
    \o When(Contains(Lower(driver), "heartbeat timeout"), "Heartbeat timeout (classic GC symptom)")
    \o When(Contains(executor, "stuck in GC"), "Executor stuck in GC")
    \o When(Contains(executor, "GC time exceeded"), "GC time threshold exceeded")

GC_OVERHEAD_LEAD == "GC overhead limit exceeded - GC thrashing due to insufficient memory"

RECS_GC_OVERHEAD ==
    <<"Increase executor memory (primary fix)",
      "Reduce memory.storageFraction to limit caching",
      "Consider GC tuning: -XX:+UseG1GC",
      "Monitor GC logs with -XX:+PrintGCDetails">>

RECS_OOM ==
    <<"Increase executor-memory",
      "Add spark.yarn.executor.memoryOverhead",
      "Use MEMORY_AND_DISK storage instead of MEMORY_ONLY",
      "Increase partition count to reduce per-partition data">>

RECS_GC ==
    <<"Tune GC: use G1GC instead of ParallelGC",
      "Increase executor memory to reduce GC pressure",
      "Reduce spark.memory.fraction to leave more heap for GC",
      "Monitor with: -XX:+PrintGCDetails -XX:+PrintGCTimeStamps">>

RECS_MIXED ==
    <<"Increase executor memory (addresses both issues)",
      "Tune GC settings",
      "Reduce caching pressure">>

Diagnosis(type, conf, evidence, recs) ==
    [failure_type |-> type, confidence |-> conf,
     key_evidence |-> evidence, recommendations |-> recs]

\* the "Check for mixed pattern" branch
gc_overhead_diagnosis(gc, oom) ==
    Diagnosis("mixed_gc_oom", "high", <<GC_OVERHEAD_LEAD>> \o gc \o oom, RECS_GC_OVERHEAD)

\* as primary_diagnosis, but the both-present branch reports confidence high
primary_diagnosis_mixed_high(gc, oom) ==
    IF oom # <<>> /\ gc = <<>> THEN Diagnosis("pure_oom", "high", oom, RECS_OOM)
    ELSE IF gc # <<>> /\ oom = <<>> THEN Diagnosis("pure_gc", "high", gc, RECS_GC)
    ELSE IF gc # <<>> /\ oom # <<>> THEN Diagnosis("mixed_gc_oom", "high", gc \o oom, RECS_MIXED)
    ELSE Diagnosis("unknown", "low", <<>>, <<>>)

\* as primary_diagnosis, but the pure_oom branch stores the (empty) GC list as evidence
primary_diagnosis_wrong_list(gc, oom) ==
    IF oom # <<>> /\ gc = <<>> THEN Diagnosis("pure_oom", "high", gc, RECS_OOM)
    ELSE IF gc # <<>> /\ oom = <<>> THEN Diagnosis("pure_gc", "high", gc, RECS_GC)
    ELSE IF gc # <<>> /\ oom # <<>> THEN Diagnosis("mixed_gc_oom", "medium", gc \o oom, RECS_MIXED)
    ELSE Diagnosis("unknown", "low", <<>>, <<>>)

\* as primary_diagnosis, but the both-present branch lists OOM evidence first
primary_diagnosis_oom_first(gc, oom) ==
    IF oom # <<>> /\ gc = <<>> THEN Diagnosis("pure_oom", "high", oom, RECS_OOM)
    ELSE IF gc # <<>> /\ oom = <<>> THEN Diagnosis("pure_gc", "high", gc, RECS_GC)
    ELSE IF gc # <<>> /\ oom # <<>> THEN Diagnosis("mixed_gc_oom", "medium", oom \o gc, RECS_MIXED)
    ELSE Diagnosis("unknown", "low", <<>>, <<>>)

\* the "Determine primary failure type" chain
primary_diagnosis(gc, oom) ==
    IF oom # <<>> /\ gc = <<>> THEN Diagnosis("pure_oom", "high", oom, RECS_OOM)
    ELSE IF gc # <<>> /\ oom = <<>> THEN Diagnosis("pure_gc", "high", gc, RECS_GC)
    ELSE IF gc # <<>> /\ oom # <<>> THEN Diagnosis("mixed_gc_oom", "medium", gc \o oom, RECS_MIXED)
    ELSE Diagnosis("unknown", "low", <<>>, <<>>)

\* as analyze_failure_pattern, but the GC-overhead test comes after the primary chain
\* and applies only when that chain found nothing
analyze_overhead_last(driver, executor) ==
    LET oom == oom_indicators(driver, executor)
        gc == gc_indicators(driver, executor)
    IN  IF primary_diagnosis(gc, oom).failure_type # "unknown"
        THEN primary_diagnosis(gc, oom)
        ELSE IF Contains(executor, "GC overhead limit exceeded")
        THEN gc_overhead_diagnosis(gc, oom)
        ELSE primary_diagnosis(gc, oom)

analyze_failure_pattern(driver, executor) ==
    LET oom == oom_indicators(driver, executor)
        gc == gc_indicators(driver, executor)
    IN  IF Contains(executor, "GC overhead limit exceeded")
        THEN gc_overhead_diagnosis(gc, oom)
        ELSE primary_diagnosis(gc, oom)


(***************************************************************************)
(* Inputs: log texts assembled from lines that carry the markers the tools *)
(* look for, and the fixture pairs of the demo's scenarios                 *)
(***************************************************************************)

\* the lines of a driver and an executor log together, at most
MaxLines == 2

DriverLines ==
    {"ERROR TaskSchedulerImpl: Likely due to Heartbeat Timeout.",
     "WARN HeartbeatReceiver: no recent heartbeats: 150000 ms exceeds timeout 120000 ms",
     "ERROR TaskSchedulerImpl: Container killed by YARN for exceeding memory limits",
     "java.lang.OutOfMemoryError: Java heap space (free 0 B)",
     "WARN Executor: Full GC event took 9 ms, stuck in GC",
     "INFO DAGScheduler: Executor lost: 1 (epoch 5)"}

ExecutorLines ==
    {"WARN Executor: Full GC event took 45000 ms",
     "WARN Executor: Full GC event took 0 ms",
     "WARN Executor: Full GC event took7 ms",
     "took -5 ms to start; Full GC event took 8 ms",
     "WARN Executor: Full GC event took too long",
     "Full GC event started, Full GC event ended",
     "java.lang.OutOfMemoryError: GC overhead limit exceeded",
     "java.lang.OutOfMemoryError: Java heap space",
     "FATAL Container: Process killed by YARN",
     "Container killed for exceeding memory limits",
     "INFO MemoryStore: Block stored (free 0.0 B)",
     "INFO MemoryStore: Block rdd_45_2 stored (free 0 B)",
     "GC time exceeded 10% threshold, executor stuck in GC",
     "WARN Backend: Executor heartbeat timed out, timeout 150000 ms",
     "  Current usage: 4.2 GB of 4 GB physical memory used\t\r",
     "killing container. Current usage: 5 GB",
     "WARN MemoryStore: Not enough space to cache rdd_45_1",
     "INFO Executor: Running task 0.0 in stage 3.0 (TID 150)"}

\* the lines, each ended by a newline
RECURSIVE Join(_)
Join(lines) == IF lines = <<>> THEN "" ELSE Head(lines) \o "\n" \o Join(Tail(lines))

\* the texts of exactly n lines
TextsOf(lines, n) == {Join(s) : s \in [1..n -> lines]}

GeneratedPairs ==
    UNION {TextsOf(DriverLines, i) \X TextsOf(ExecutorLines, j) :
               <<i, j>> \in {x \in (0..MaxLines) \X (0..MaxLines) : x[1] + x[2] <= MaxLines}}

\* the pairs the demo's three scenarios name, and the crossed ones
FixturePairs ==
    {<<LOG_DATA[d], LOG_DATA[e]>> :
        d \in {"oom_driver", "gc_driver"},
        e \in {"oom_executor", "gc_executor", "mixed_executor"}}

Inputs == GeneratedPairs \cup FixturePairs

\* the arguments the log access tools are tried with
LogTypes == DOMAIN LOG_DATA \cup {"mixed_driver", "OOM_DRIVER", ""}
Scenarios == {"oom", "gc", "mixed", "spill"}
ExecutorIds == 0..4

(***************************************************************************)
(* One tool call on the logs in hand                                       *)
(***************************************************************************)

NoCall == [fn |-> "none"]
NoResult == [none |-> TRUE]
Callers == {1, 2}

Init ==
    /\ LOGS = LOG_DATA
    /\ \E input \in Inputs : driver_log = input[1] /\ executor_log = input[2]
    /\ pc = "idle"
    /\ call = NoCall
    /\ result = NoResult
    /\ pending = [c \in Callers |-> NoCall]
    /\ history = <<>>

Returns(c, value) ==
    /\ pc = "idle"
    /\ pc' = "done"
    /\ call' = c
    /\ result' = value
    /\ UNCHANGED <<LOGS, driver_log, executor_log, pending, history>>

Analyze ==
    Returns([fn |-> "analyze_failure_pattern", driver_log |-> driver_log,
             executor_log |-> executor_log],
            analyze_failure_pattern(driver_log, executor_log))

SearchGc ==
    \E log_content \in {driver_log, executor_log} :
        Returns([fn |-> "search_gc_indicators", log_content |-> log_content],
                search_gc_indicators(log_content))

SearchOom ==
    \E log_content \in {driver_log, executor_log} :
        Returns([fn |-> "search_oom_indicators", log_content |-> log_content],
                search_oom_indicators(log_content))

\* the log access tools are what a caller with no log in hand turns to
NoLogs == driver_log = "" /\ executor_log = ""

GetLog ==
    \E log_type \in LogTypes :
        /\ NoLogs
        /\ pc = "idle"
        /\ pc' = "done"
        /\ call' = [fn |-> "get_log", log_type |-> log_type]
        /\ result' = get_log(LOGS, log_type)
        /\ LOGS' = corpus_after_get_log(LOGS, log_type)
        /\ UNCHANGED <<driver_log, executor_log, pending, history>>

GetDriverLog ==
    \E scenario \in Scenarios :
        /\ NoLogs
        /\ Returns([fn |-> "get_driver_log", scenario |-> scenario], get_driver_log(scenario))

GetExecutorLog ==
    \E executor_id \in ExecutorIds, scenario \in Scenarios :
        /\ NoLogs
        /\ Returns([fn |-> "get_executor_log", executor_id |-> executor_id,
                    scenario |-> scenario],
                   get_executor_log(executor_id, scenario))

Next == Analyze \/ SearchGc \/ SearchOom \/ GetLog \/ GetDriverLog \/ GetExecutorLog

Spec == Init /\ [][Next]_vars

(***************************************************************************)
(* A session: two callers invoke the tools of spark_gc_oom_demo.py and the *)
(* extractors, their calls overlapping; a log text passed to a tool is one *)
(* that get_log returned earlier in the session                            *)
(***************************************************************************)

\* the calls of a session, in flight and returned together, at most
MaxCalls == 3

SessionLogTypes == {"gc_executor", "mixed_driver"}

InitSession ==
    /\ LOGS = LOG_DATA
    /\ driver_log = ""
    /\ executor_log = ""
    /\ pc = "idle"
    /\ call = NoCall
    /\ result = NoResult
    /\ pending = [c \in Callers |-> NoCall]
    /\ history = <<>>

\* the texts get_log has returned so far
Fetched == {history[i].value : i \in {j \in 1..Len(history) : history[j].call.fn = "get_log"}}

SessionCalls ==
    {[fn |-> "get_log", log_type |-> k] : k \in SessionLogTypes}
    \cup {[fn |-> "search_gc_indicators", log_content |-> t] : t \in Fetched}
    \cup {[fn |-> "search_oom_indicators", log_content |-> t] : t \in Fetched}
    \cup {[fn |-> "analyze_failure_pattern", driver_log |-> d, executor_log |-> e] :
              d \in Fetched, e \in Fetched}

InFlight == Cardinality({c \in Callers : pending[c] # NoCall})

\* what the call returns when the corpus is logs
Eval(c, logs) ==
    CASE c.fn = "get_log" -> get_log(logs, c.log_type)
      [] c.fn = "search_gc_indicators" -> search_gc_indicators(c.log_content)
      [] c.fn = "search_oom_indicators" -> search_oom_indicators(c.log_content)
      [] c.fn = "analyze_failure_pattern" ->
            analyze_failure_pattern(c.driver_log, c.executor_log)

\* the corpus the call leaves behind
CorpusAfter(c, logs) ==
    IF c.fn = "get_log" THEN corpus_after_get_log(logs, c.log_type) ELSE logs

Invoke(caller) ==
    /\ pending[caller] = NoCall
    /\ Len(history) + InFlight < MaxCalls
    /\ \E c \in SessionCalls : pending' = [pending EXCEPT ![caller] = c]
    /\ UNCHANGED <<LOGS, driver_log, executor_log, pc, call, result, history>>

Return(caller) ==
    /\ pending[caller] # NoCall
    /\ history' = Append(history,
                         [caller |-> caller,
                          call |-> pending[caller],
                          value |-> Eval(pending[caller], LOGS),
                          overlapped |-> \E other \in Callers \ {caller} :
                                             pending[other] # NoCall])
    /\ LOGS' = CorpusAfter(pending[caller], LOGS)
    /\ pending' = [pending EXCEPT ![caller] = NoCall]
    /\ UNCHANGED <<driver_log, executor_log, pc, call, result>>

NextSession == \E caller \in Callers : Invoke(caller) \/ Return(caller)

SpecSession == InitSession /\ [][NextSession]_vars

(***************************************************************************)
(* Properties of the classifier                                            *)
(***************************************************************************)

\* the run's call was analyze_failure_pattern and it has returned
Analyzed == pc = "done" /\ call.fn = "analyze_failure_pattern"

GcOverheadInExecutor == Contains(call.executor_log, "GC overhead limit exceeded")

GcBearing == result.failure_type \in {"pure_gc", "mixed_gc_oom"}

OomBearing == result.failure_type \in {"pure_oom", "mixed_gc_oom"}

\* C1: whenever the executor log contains "GC overhead limit exceeded", the
\* diagnosis is mixed_gc_oom with confidence high and the 4-item GC-overhead
\* recommendation list, whatever else either log holds.
C1_GcOverheadPrecedence ==
    (Analyzed /\ GcOverheadInExecutor) =>
        /\ result.failure_type = "mixed_gc_oom"
        /\ result.confidence = "high"
        /\ result.recommendations = RECS_GC_OVERHEAD
        /\ Len(result.recommendations) = 4

\* the GC-overhead line together with a Full GC duration line in the executor
\* log and an OOM marker in the driver log
C1_Witness ==
    /\ Analyzed /\ GcOverheadInExecutor
    /\ Contains(call.executor_log, "Full GC event took")
    /\ Contains(call.driver_log, "Container killed")
    /\ result.failure_type = "mixed_gc_oom"

\* gc_present of the specification: some GC field of the extractor's record is
\* set for the driver log or for the executor log
gc_present(driver, executor) ==
    \E log \in {driver, executor} :
        LET r == search_gc_indicators(log)
        IN  r.full_gc_events > 0 \/ r.heartbeat_timeout \/ r.stuck_in_gc \/ r.gc_warnings > 0

\* the GC tests the classifier makes, in terms of the extractor's records where
\* the two agree: stuck_in_gc and gc_warnings of the executor log only, a Full
\* GC event only with its "took", the heartbeat only as the adjacent phrase
\* "heartbeat timeout" of the driver log
gc_evidence(driver, executor) ==
    \/ search_gc_indicators(executor).stuck_in_gc
    \/ search_gc_indicators(executor).gc_warnings > 0
    \/ Contains(executor, "Full GC event took")
    \/ Contains(Lower(driver), "heartbeat timeout")

\* C2 as claimed: without "GC overhead limit exceeded" in the executor log, the
\* failure type is GC-bearing exactly when gc_present holds.
C2_GcBearingIffGcPresent ==
    (Analyzed /\ ~GcOverheadInExecutor) =>
        (GcBearing <=> gc_present(call.driver_log, call.executor_log))

\* C2 as amended: without "GC overhead limit exceeded" in the executor log, a
\* GC-bearing failure type implies gc_present, and it is reported exactly when
\* the executor log has stuck_in_gc or gc_warnings > 0 or contains "Full GC
\* event took", or the lower-cased driver log contains "heartbeat timeout".
C2_GcBearingIffGcEvidence ==
    (Analyzed /\ ~GcOverheadInExecutor) =>
        /\ GcBearing <=> gc_evidence(call.driver_log, call.executor_log)
        /\ GcBearing => gc_present(call.driver_log, call.executor_log)

\* the driver log spells the phrase "Heartbeat Timeout" and nothing else is there
C2_Witness ==
    /\ Analyzed /\ ~GcOverheadInExecutor
    /\ call.executor_log = ""
    /\ Contains(call.driver_log, "Heartbeat Timeout")
    /\ result.failure_type = "pure_gc"

\* oom_present of the specification: some OOM field other than not_enough_space
\* of the extractor's record is set for the driver log or for the executor log
oom_present(driver, executor) ==
    \E log \in {driver, executor} :
        LET r == search_oom_indicators(log)
        IN  r.java_heap_space_oom \/ r.container_killed \/ r.memory_exceeded
            \/ r.free_memory_zero

\* the OOM tests the classifier makes: heap space OOM and zero free memory of
\* the executor log only, "Container killed" (not "killed by YARN") and
\* "exceeding memory limits" of either log
oom_evidence(driver, executor) ==
    \/ search_oom_indicators(executor).java_heap_space_oom
    \/ search_oom_indicators(executor).free_memory_zero
    \/ Contains(driver, "Container killed") \/ Contains(executor, "Container killed")
    \/ search_oom_indicators(driver).memory_exceeded
    \/ search_oom_indicators(executor).memory_exceeded

\* C3 as claimed: without "GC overhead limit exceeded" in the executor log, the
\* failure type is OOM-bearing exactly when oom_present holds.
C3_OomBearingIffOomPresent ==
    (Analyzed /\ ~GcOverheadInExecutor) =>
        (OomBearing <=> oom_present(call.driver_log, call.executor_log))

\* C3 as amended: without "GC overhead limit exceeded" in the executor log, an
\* OOM-bearing failure type implies oom_present, and it is reported exactly
\* when the executor log has java_heap_space_oom or free_memory_zero, or either
\* log contains "Container killed" or has memory_exceeded; "Not enough space"
\* alone never makes the type OOM-bearing.
C3_OomBearingIffOomEvidence ==
    (Analyzed /\ ~GcOverheadInExecutor) =>
        /\ OomBearing <=> oom_evidence(call.driver_log, call.executor_log)
        /\ OomBearing => oom_present(call.driver_log, call.executor_log)

\* "killed by YARN" without "Container killed" in the executor log, beside a
\* heap space OOM that does make the type OOM-bearing
C3_Witness ==
    /\ Analyzed /\ ~GcOverheadInExecutor
    /\ Contains(call.executor_log, "killed by YARN")
    /\ ~Contains(call.executor_log, "Container killed")
    /\ Contains(call.executor_log, "OutOfMemoryError: Java heap space")
    /\ result.failure_type = "pure_oom"

OOM_EVIDENCE ==
    {"Java heap space OOM", "Container killed by YARN", "Memory exhausted (0 free)",
     "Physical memory limit exceeded"}

HasOomEvidence == \E i \in 1..Len(result.key_evidence) : result.key_evidence[i] \in OOM_EVIDENCE

HasGcEvidence ==
    \E i \in 1..Len(result.key_evidence) :
        result.key_evidence[i] \notin OOM_EVIDENCE \cup {GC_OVERHEAD_LEAD}

\* C4: (failure_type, confidence, recommendations) is one of five fixed
\* combinations; mixed_gc_oom comes with high only when the executor log
\* contains "GC overhead limit exceeded", and medium comes only with both GC
\* and OOM evidence and without that marker.
C4_FiveCombinations ==
    Analyzed =>
        /\ <<result.failure_type, result.confidence, result.recommendations>> \in
              {<<"unknown", "low", <<>> >>,
               <<"pure_oom", "high", RECS_OOM>>,
               <<"pure_gc", "high", RECS_GC>>,
               <<"mixed_gc_oom", "high", RECS_GC_OVERHEAD>>,
               <<"mixed_gc_oom", "medium", RECS_MIXED>>}
        /\ Len(RECS_OOM) = 4 /\ Len(RECS_GC) = 4 /\ Len(RECS_GC_OVERHEAD) = 4
        /\ Len(RECS_MIXED) = 3
        /\ (result.failure_type = "mixed_gc_oom" /\ result.confidence = "high")
              => GcOverheadInExecutor
        /\ result.confidence = "medium"
              => (~GcOverheadInExecutor /\ HasGcEvidence /\ HasOomEvidence)

\* GC and OOM evidence together without the GC-overhead marker
C4_Witness ==
    /\ Analyzed /\ ~GcOverheadInExecutor
    /\ HasGcEvidence /\ HasOomEvidence
    /\ result.confidence = "medium"

\* every substring the classifier tests for
CLASSIFIER_MARKERS ==
    {"OutOfMemoryError: Java heap space", "Container killed", "free 0.0 B", "free 0 B",
     "exceeding memory limits", "Full GC event took", "heartbeat timeout", "stuck in GC",
     "GC time exceeded", "GC overhead limit exceeded"}

NoMarkers(log) == \A m \in CLASSIFIER_MARKERS : ~Contains(Lower(log), Lower(m))

\* C5: failure_type is unknown exactly when the evidence list is empty; unknown
\* comes with no recommendations and confidence low; two texts with none of
\* the markers (two empty strings among them) give unknown / low / [] / [].
C5_UnknownIffNoEvidence ==
    Analyzed =>
        /\ result.failure_type = "unknown" <=> result.key_evidence = <<>>
        /\ result.failure_type = "unknown"
              => (result.recommendations = <<>> /\ result.confidence = "low")
        /\ (NoMarkers(call.driver_log) /\ NoMarkers(call.executor_log))
              => result = Diagnosis("unknown", "low", <<>>, <<>>)

\* two non-empty logs without a marker
C5_Witness ==
    /\ Analyzed
    /\ call.driver_log # "" /\ call.executor_log # ""
    /\ NoMarkers(call.driver_log) /\ NoMarkers(call.executor_log)
    /\ result.failure_type = "unknown"

(***************************************************************************)
(* Properties of the GC extractor's statistics                             *)
(***************************************************************************)

\* the run's call was search_gc_indicators and it has returned
SearchedGc == pc = "done" /\ call.fn = "search_gc_indicators"

\* the value is the arithmetic mean of the sequence
IsMeanOf(avg, seq) == avg.den > 0 /\ avg.num * Len(seq) = Sum(seq) * avg.den

\* C6 as claimed: avg_gc_time_ms is 0 exactly when gc_event_times_ms is empty,
\* and is the arithmetic mean of a non-empty sequence.
C6_AvgZeroIffNoDurations ==
    SearchedGc =>
        /\ result.avg_gc_time_ms.num = 0 <=> result.gc_event_times_ms = <<>>
        /\ result.gc_event_times_ms # <<>>
              => IsMeanOf(result.avg_gc_time_ms, result.gc_event_times_ms)

\* C6 as amended: avg_gc_time_ms is 0 when gc_event_times_ms is empty, and is
\* the arithmetic mean of a non-empty sequence, which is 0 as well when its
\* entries sum to 0.
C6_AvgIsMeanOrZero ==
    SearchedGc =>
        /\ result.gc_event_times_ms = <<>> => result.avg_gc_time_ms = ZeroAvg
        /\ result.gc_event_times_ms # <<>>
              => /\ IsMeanOf(result.avg_gc_time_ms, result.gc_event_times_ms)
                 /\ result.avg_gc_time_ms.num = 0 <=> Sum(result.gc_event_times_ms) = 0

\* durations were parsed and their mean is 0
C6_Witness ==
    /\ SearchedGc
    /\ result.gc_event_times_ms # <<>>
    /\ result.avg_gc_time_ms.num = 0

(***************************************************************************)
(* Properties of log access                                                *)
(***************************************************************************)

LogAccessed == pc = "done" /\ call.fn \in {"get_log", "get_driver_log", "get_executor_log"}

\* the key of the lookup names a fixture: a key of LOGS, a scenario the driver
\* variant documents, an (executor, scenario) pair that has an executor log
NamesFixture(c) ==
    CASE c.fn = "get_log" -> c.log_type \in DOMAIN LOG_DATA
      [] c.fn = "get_driver_log" -> c.scenario \in {"oom", "gc", "mixed"}
      [] c.fn = "get_executor_log" ->
            <<c.executor_id, c.scenario>> \in {<<1, "oom">>, <<2, "gc">>, <<3, "mixed">>}

FIXTURE_TEXTS ==
    {LOG_DATA[k] : k \in DOMAIN LOG_DATA}
    \cup {DRIVER_LOG_OOM, DRIVER_LOG_GC, EXECUTOR_1_LOG_OOM, EXECUTOR_2_LOG_GC,
          EXECUTOR_3_LOG_MIXED}

StartsWith(s, prefix) == Len(s) >= Len(prefix) /\ SubSeq(s, 1, Len(prefix)) = prefix

EndsWith(s, suffix) ==
    Len(s) >= Len(suffix) /\ SubSeq(s, Len(s) - Len(suffix) + 1, Len(s)) = suffix

IsSentinel(text) == StartsWith(text, "Error: ") /\ text \notin FIXTURE_TEXTS

\* C7: a lookup whose key names no fixture returns a sentinel text that is no
\* fixture's log; no unknown or mismatched key is answered with a log.
C7_UnknownKeyGetsSentinel ==
    (LogAccessed /\ ~NamesFixture(call)) => IsSentinel(result)

(***************************************************************************)
(* The demo's scenarios                                                    *)
(***************************************************************************)

AnalyzedPair(d, e) ==
    Analyzed /\ call.driver_log = LOG_DATA[d] /\ call.executor_log = LOG_DATA[e]

\* C8: the fixture pairs classify to their ground truth: the OOM pair to
\* pure_oom / high with evidence and the 4-item OOM list, the GC pair to
\* pure_gc / high with durations 45000, 52000, 48000, maximum 52000 and the
\* average reported as 48333, the mixed pair to mixed_gc_oom / high.
C8_FixturesClassify ==
    /\ AnalyzedPair("oom_driver", "oom_executor") =>
          /\ result.failure_type = "pure_oom" /\ result.confidence = "high"
          /\ result.key_evidence # <<>>
          /\ result.recommendations = RECS_OOM /\ Len(RECS_OOM) = 4
    /\ AnalyzedPair("gc_driver", "gc_executor") =>
          /\ result.failure_type = "pure_gc" /\ result.confidence = "high"
          /\ \E i \in 1..Len(result.key_evidence) :
                result.key_evidence[i] = "Max GC pause: 52000ms, Avg: 48333ms"
    /\ AnalyzedPair("oom_driver", "mixed_executor") =>
          /\ result.failure_type = "mixed_gc_oom" /\ result.confidence = "high"
    /\ (SearchedGc /\ call.log_content = LOG_DATA["gc_executor"]) =>
          /\ result.gc_event_times_ms = <<45000, 52000, 48000>>
          /\ result.max_gc_time_ms = 52000
          /\ RoundHalfEven(result.avg_gc_time_ms.num, result.avg_gc_time_ms.den) = 48333

\* the GC scenario's pair has been analysed
C8_Witness ==
    /\ AnalyzedPair("gc_driver", "gc_executor")
    /\ result.failure_type = "pure_gc"
    /\ Len(result.key_evidence) = 5

(***************************************************************************)
(* Independence of the calls of a session                                  *)
(***************************************************************************)

\* the entry the step appended to history
Returned == history'[Len(history')]

\* C9: in every interleaving of calls, the corpus LOGS is never modified, a
\* result returned earlier is not changed by a later call, every call returns
\* what the same call returns in isolation (on the untouched corpus), and two
\* calls with identical arguments return identical results.
C9_CallsAreIndependent ==
    [][/\ LOGS' = LOG_DATA
       /\ Len(history') >= Len(history)
       /\ SubSeq(history', 1, Len(history)) = history
       /\ Len(history') > Len(history) =>
             /\ Returned.value = Eval(Returned.call, LOG_DATA)
             /\ \A i \in 1..Len(history) :
                   history[i].call = Returned.call => history[i].value = Returned.value]_vars

\* after a log was fetched, both callers ran the same analysis, the calls
\* overlapping, and both have returned
C9_Witness ==
    /\ Len(history) = 3
    /\ history[2].call = history[3].call
    /\ history[2].call.fn = "analyze_failure_pattern"
    /\ history[2].caller # history[3].caller
    /\ history[2].overlapped
    /\ history[1].call.log_type \in DOMAIN LOG_DATA

(***************************************************************************)
(* Order of the evidence                                                   *)
(***************************************************************************)

\* the place of an evidence string in the fixed detection order
EvidenceRank(e) ==
    CASE e = GC_OVERHEAD_LEAD -> 0
      [] EndsWith(e, " Full GC events detected") -> 1
      [] StartsWith(e, "Max GC pause: ") -> 2
      [] e = "Heartbeat timeout (classic GC symptom)" -> 3
      [] e = "Executor stuck in GC" -> 4
      [] e = "GC time threshold exceeded" -> 5
      [] e = "Java heap space OOM" -> 6
      [] e = "Container killed by YARN" -> 7
      [] e = "Memory exhausted (0 free)" -> 8
      [] e = "Physical memory limit exceeded" -> 9
      [] OTHER -> 0 - 1

\* C10: the evidence list follows the fixed order lead phrase, count phrase,
\* duration stats, heartbeat timeout, stuck in GC, GC time threshold, heap
\* space OOM, container killed, memory exhausted, memory limit exceeded,
\* wherever the markers stand in the texts; the lead phrase heads the list
\* under the GC-overhead rule and is absent otherwise; no string appears twice.
C10_EvidenceOrder ==
    Analyzed =>
        LET ev == result.key_evidence
        IN  /\ \A i \in 1..Len(ev) : EvidenceRank(ev[i]) >= 0
            /\ \A i, j \in 1..Len(ev) : i < j => EvidenceRank(ev[i]) < EvidenceRank(ev[j])
            /\ GcOverheadInExecutor => (ev # <<>> /\ ev[1] = GC_OVERHEAD_LEAD)
            /\ ~GcOverheadInExecutor => \A i \in 1..Len(ev) : ev[i] # GC_OVERHEAD_LEAD

\* the executor log names the GC time threshold before "stuck in GC" and an
\* OOM marker before both, and the evidence lists them in the fixed order
C10_Witness ==
    /\ Analyzed
    /\ StartsWith(call.executor_log, "java.lang.OutOfMemoryError: Java heap space")
    /\ Contains(call.executor_log, "GC time exceeded 10% threshold, executor stuck in GC")
    /\ result.key_evidence =
          <<"Executor stuck in GC", "GC time threshold exceeded", "Java heap space OOM">>

(***************************************************************************)
(* Properties of the GC extractor's count and durations                    *)
(***************************************************************************)

FULL_GC_EVENT == "Full GC event"

FULL_GC_EVENT_TOOK == "Full GC event took"

\* no two of the positions are closer than len: the occurrences do not overlap
NonOverlapping(positions, len) ==
    \A i, j \in positions : i < j => i + len <= j

\* the largest number of occurrences of m in s no two of which overlap
Occurrences(s, m) ==
    LET sizes == {Cardinality(P) : P \in {Q \in SUBSET Hits(s, m) : NonOverlapping(Q, Len(m))}}
    IN  CHOOSE n \in sizes : \A k \in sizes : k <= n

LinesOf(text) == Split(text, "\n")

\* the lines of the text that hold the duration marker
MarkerLines(text) ==
    SelectSeq(LinesOf(text), LAMBDA l : Contains(l, FULL_GC_EVENT_TOOK))

HasDigit(s) == \E k \in 1..Len(s) : IsDigit(SubSeq(s, k, k))

\* marker lines that hold no digit at all: no reading finds a duration in them
DigitFreeMarkerLines(text) ==
    SelectSeq(MarkerLines(text), LAMBDA l : ~HasDigit(l))

RECURSIVE SumOver(_, _)
SumOver(lines, m) ==
    IF lines = <<>> THEN 0 ELSE Occurrences(Head(lines), m) + SumOver(Tail(lines), m)

\* C11: full_gc_events is the number of non-overlapping occurrences of
\* "Full GC event" in the whole text, which is the total over its lines and not
\* the number of lines; a line whose duration cannot be parsed is counted all
\* the same and adds no entry to gc_event_times_ms.
C11_CountsOccurrencesInWholeText ==
    SearchedGc =>
        /\ result.full_gc_events = Occurrences(call.log_content, FULL_GC_EVENT)
        /\ result.full_gc_events = SumOver(LinesOf(call.log_content), FULL_GC_EVENT)
        /\ result.full_gc_events >= Len(MarkerLines(call.log_content))
        /\ Len(result.gc_event_times_ms) + Len(DigitFreeMarkerLines(call.log_content))
              <= Len(MarkerLines(call.log_content))

\* a text with an unparsable marker line and a parsable one: both are counted,
\* one duration is kept
C11_Witness ==
    /\ SearchedGc
    /\ Len(DigitFreeMarkerLines(call.log_content)) = 1
    /\ result.full_gc_events = 2
    /\ Len(result.gc_event_times_ms) = 1

\* the text between the line's first duration marker and the "ms" after it
MarkerDurationText(line) ==
    LET hits == Hits(line, FULL_GC_EVENT_TOOK)
        at == CHOOSE h \in hits : \A k \in hits : h <= k
    IN  Strip(Split(From(line, at + Len(FULL_GC_EVENT_TOOK)), "ms")[1])

\* a non-negative integer as written: one digit or more and nothing else
IsWrittenNatural(s) == s # "" /\ \A k \in 1..Len(s) : IsDigit(SubSeq(s, k, k))

RECURSIVE MarkerDurations(_)
MarkerDurations(lines) ==
    IF lines = <<>> THEN <<>>
    ELSE LET written == MarkerDurationText(Head(lines))
         IN  (IF IsWrittenNatural(written) THEN <<DigitsValue(written, 0)>> ELSE <<>>)
             \o MarkerDurations(Tail(lines))

\* the durations written after the markers of the text, in file order
WrittenDurations(text) == MarkerDurations(MarkerLines(text))

IsStatsPhrase(phrase) == StartsWith(phrase, "Max GC pause: ")

\* C12: gc_event_times_ms holds, in file order, one entry per line with a
\* "Full GC event took" whose duration can be parsed, the entry being the
\* non-negative integer written between that marker's "took" and the next
\* "ms"; no entry is negative or taken from text before the marker. The
\* classifier's statistics are those of the same durations.
C12_DurationsFollowTheMarker ==
    /\ SearchedGc =>
          /\ result.gc_event_times_ms = WrittenDurations(call.log_content)
          /\ \A i \in 1..Len(result.gc_event_times_ms) : result.gc_event_times_ms[i] >= 0
    /\ Analyzed =>
          LET written == WrittenDurations(call.executor_log)
          IN  /\ \A i \in 1..Len(result.key_evidence) :
                    IsStatsPhrase(result.key_evidence[i])
                        => /\ written # <<>>
                           /\ result.key_evidence[i] = StatsPhrase(written)
              /\ written # <<>> =>
                    \E i \in 1..Len(result.key_evidence) : IsStatsPhrase(result.key_evidence[i])

(***************************************************************************)
(* Properties of the OOM extractor's usage line                            *)
(***************************************************************************)

SearchedOom == pc = "done" /\ call.fn = "search_oom_indicators"

CURRENT_USAGE == "Current usage:"

OOM_FIELDS ==
    {"java_heap_space_oom", "container_killed", "memory_exceeded", "not_enough_space",
     "free_memory_zero"}

AllWhitespace(s) == \A k \in 1..Len(s) : SubSeq(s, k, k) \in WHITESPACE

\* t is s without its leading and trailing whitespace
IsTrimOf(t, s) ==
    /\ t = "" \/ (SubSeq(t, 1, 1) \notin WHITESPACE /\ SubSeq(t, Len(t), Len(t)) \notin WHITESPACE)
    /\ \E a \in 1..(Len(s) + 1) :
          /\ a + Len(t) - 1 <= Len(s)
          /\ SubSeq(s, a, a + Len(t) - 1) = t
          /\ AllWhitespace(SubSeq(s, 1, a - 1))
          /\ AllWhitespace(From(s, a + Len(t)))

\* C13: the record of search_oom_indicators carries memory_usage_info exactly
\* when the text contains "Current usage:", its value then being the first
\* line with that marker, trimmed of leading and trailing whitespace; the
\* other five fields are always there, whatever the text.
C13_UsageLineIsFirstTrimmed ==
    SearchedOom =>
        LET lines == LinesOf(call.log_content)
        IN  /\ OOM_FIELDS \subseteq DOMAIN result
            /\ DOMAIN result \subseteq OOM_FIELDS \cup {"memory_usage_info"}
            /\ "memory_usage_info" \in DOMAIN result
                  <=> Contains(call.log_content, CURRENT_USAGE)
            /\ "memory_usage_info" \in DOMAIN result =>
                  \E i \in 1..Len(lines) :
                      /\ Contains(lines[i], CURRENT_USAGE)
                      /\ \A j \in 1..(i - 1) : ~Contains(lines[j], CURRENT_USAGE)
                      /\ IsTrimOf(result.memory_usage_info, lines[i])

\* two lines hold the marker, the first one with whitespace around it: the
\* first is kept, trimmed
C13_Witness ==
    /\ SearchedOom
    /\ Len(SelectSeq(LinesOf(call.log_content), LAMBDA l : Contains(l, CURRENT_USAGE))) = 2
    /\ StartsWith(call.log_content, "  Current usage:")
    /\ "memory_usage_info" \in DOMAIN result
    /\ result.memory_usage_info = "Current usage: 4.2 GB of 4 GB physical memory used"

(***************************************************************************)
(* Durations against the count and the maximum                             *)
(***************************************************************************)

COUNT_PHRASE_END == " Full GC events detected"

IsCountPhrase(phrase) == EndsWith(phrase, COUNT_PHRASE_END)

\* the n of "n Full GC events detected"
CountOfPhrase(phrase) == ParseInt(SubSeq(phrase, 1, Len(phrase) - Len(COUNT_PHRASE_END)))

\* C14: the record of search_gc_indicators has no more durations than counted
\* events; max_gc_time_ms is 0 without durations and otherwise one of them,
\* no smaller than any; and the statistics phrase of analyze_failure_pattern
\* comes right after a count phrase whose count is at least 1 and at least the
\* number of parsed durations.
C14_DurationsWithinCount ==
    /\ SearchedGc =>
          LET times == result.gc_event_times_ms
          IN  /\ Len(times) <= result.full_gc_events
              /\ times = <<>> => result.max_gc_time_ms = 0
              /\ times # <<>> =>
                    /\ \E i \in 1..Len(times) : times[i] = result.max_gc_time_ms
                    /\ \A i \in 1..Len(times) : times[i] <= result.max_gc_time_ms
    /\ Analyzed =>
          \A i \in 1..Len(result.key_evidence) :
              IsStatsPhrase(result.key_evidence[i]) =>
                  /\ i > 1
                  /\ IsCountPhrase(result.key_evidence[i - 1])
                  /\ LET n == CountOfPhrase(result.key_evidence[i - 1])
                     IN  /\ n.ok
                         /\ n.val >= 1
                         /\ n.val >= Len(gc_times(call.executor_log))

\* the statistics phrase follows a count of 2 although one duration was parsed
C14_Witness ==
    /\ Analyzed
    /\ Len(result.key_evidence) >= 2
    /\ result.key_evidence[1] = "2 Full GC events detected"
    /\ IsStatsPhrase(result.key_evidence[2])
    /\ Len(gc_times(call.executor_log)) = 1

=============================================================================
